---- MODULE Spec2Model ----
(***************************************************************************)
(* A model of richery: rectangle construction (canvas.Rect), font-variant  *)
(* lookup (canvas.FontFamily), the SGR style interpreter                   *)
(* (ansitool.SGRState), segmentation and punctuation binding (textwork)    *)
(* and the line layout loop (canvas.RichCanvas._text).                     *)
(*                                                                         *)
(* Every component has its own specification (SpecRect, SpecFont, ...).    *)
(* Each one draws the inputs of the operations from bounded sets and       *)
(* applies the operation as the source computes it; the variables of the   *)
(* other components stay at their idle values.                             *)
(***************************************************************************)
EXTENDS Integers, Sequences, FiniteSets, TLC

VARIABLES
    geo,    \* the last Rect.from_ltrb call: its arguments and its outcome
    fam,    \* a FontFamily: slot 1..9 -> font handle, 0 for an unset slot
    fres,   \* the last FontFamily lookup: its arguments and its outcome
    sgr,    \* the SGRState object
    pre,    \* the SGRState as it was when the last set_state call began
    lastOps,\* the opcodes of the last set_state call
    ncalls, \* the number of set_state calls made
    text,   \* the argument of split: a string, as its code points
    base,   \* split's local base: the number of characters consumed
    res,    \* split's local res: the tokens found so far
    toks,   \* the arguments of combine: a sequence of tokens
    comb,   \* the list combine returned
    tpc,    \* where the text functions stand: "split", "combine", "done", "idle"
    ltext,  \* the text given to RichCanvas.text and its justify flag
    st,     \* the TextDrawState given to RichCanvas.text
    lines,  \* the hard lines RichCanvas.text has still to lay out
    lo,     \* the locals of the running RichCanvas._text call
    paints, \* the draw.text calls made, in order
    flushes,\* one record for every _draw_text call made by _text, in order
    lpc     \* where RichCanvas.text stands: idle, call, line, loop, done or fault

rectVars == <<geo>>
fontVars == <<fam, fres>>
sgrVars == <<sgr, pre, lastOps, ncalls>>
textVars == <<text, base, res, toks, comb, tpc>>
layVars == <<ltext, st, lines, lo, paints, flushes, lpc>>
vars ==
    <<geo, fam, fres, sgr, pre, lastOps, ncalls, text, base, res, toks, comb, tpc,
      ltext, st, lines, lo, paints, flushes, lpc>>

\* ------------------------------------------------------------------------
\* Helpers
\* ------------------------------------------------------------------------

Min(a, b) == IF a <= b THEN a ELSE b

Max(a, b) == IF a >= b THEN a ELSE b

Abs(a) == IF a < 0 THEN -a ELSE a

Last(q) == q[Len(q)]

\* Python's ^ on two bools
Xor(a, b) == (a /\ ~b) \/ (~a /\ b)

\* ------------------------------------------------------------------------
\* canvas.Rect
\* ------------------------------------------------------------------------

\* Largest magnitude of the small coordinates tried besides the spec's own.
MaxCoord == 2

Coords == (-MaxCoord .. MaxCoord) \cup {-5, 10, 20}

Points == Coords \X Coords

Rect(x, y, w, h) == [kind |-> "rect", x |-> x, y |-> y, w |-> w, h |-> h]

RectError == [kind |-> "ArithmeticError", x |-> 0, y |-> 0, w |-> 0, h |-> 0]

NoRect == [kind |-> "none", x |-> 0, y |-> 0, w |-> 0, h |-> 0]

\* A plausible slip: the consistency check of the two axes left out.
from_ltrb_unchecked(lt, rb) ==
    Rect(Min(lt[1], rb[1]), Min(lt[2], rb[2]), Abs(rb[1] - lt[1]), Abs(rb[2] - lt[2]))

\* Rect.from_ltrb(lt, rb)
from_ltrb(lt, rb) ==
    LET _x == lt[1]
        _y == lt[2]
        _xw == rb[1]
        _yh == rb[2]
    IN  IF Xor(_x > _xw, _y > _yh)
        THEN RectError
        ELSE Rect(Min(_x, _xw), Min(_y, _yh), Abs(_xw - _x), Abs(_yh - _y))

IdleGeo == [lt |-> <<0, 0>>, rb |-> <<0, 0>>, out |-> NoRect]

\* The call Rect.from_ltrb(geo.lt, geo.rb) on the arguments drawn in InitRect.
FromLtrb ==
    /\ geo.out.kind = "none"
    /\ geo' = [geo EXCEPT !.out = from_ltrb(geo.lt, geo.rb)]
    /\ UNCHANGED <<fontVars, sgrVars, textVars, layVars>>

\* ------------------------------------------------------------------------
\* canvas.FontFamily
\* ------------------------------------------------------------------------

\* Slot numbers follow the weight / 100: 1 Thin ... 4 Regular ... 9 Black.
Slots == 1 .. 9

RegularSlot == 4

BoldSlot == 7

\* An unset (None) slot.
NoFont == 0

\* Font handles are distinct objects: the handle of a configured slot is the
\* slot's number.  Regular is mandatory.
Families ==
    { [s \in Slots |-> IF s \in S THEN s ELSE NoFont] :
        S \in { T \in SUBSET Slots : RegularSlot \in T } }

Regular(f) == f[RegularSlot]

\* FontFamily._tuple(): the nine variants in ascending weight order
_tuple(f) == [i \in 1 .. 9 |-> f[i]]

FontOut(h) == [kind |-> "font", font |-> h]

FontIndexError == [kind |-> "IndexError", font |-> NoFont]

FontValueError == [kind |-> "ValueError", font |-> NoFont]

NoLookup == [kind |-> "none", font |-> NoFont]

\* A plausible slip: an unset slot resolves to the nearest configured slot
\* instead of Regular.
_select_nearest(f, _i) ==
    LET slot == IF _i = 0 THEN RegularSlot ELSE _i
        conf == { s \in Slots : f[s] # NoFont }
        best == CHOOSE s \in conf :
                    \A u \in conf : Abs(s - slot) <= Abs(u - slot)
    IN  f[best]

\* FontFamily._select(_i): ((Regular,) + _tuple())[_i] or Regular
_select(f, _i) ==
    LET t == <<Regular(f)>> \o _tuple(f)
        v == t[_i + 1]
    IN  IF v # NoFont THEN v ELSE Regular(f)

\* Python's round(_i / 100) for _i >= 0: halves go to the even neighbour.
RoundHundredth(_i) ==
    LET q == _i \div 100
        r == _i % 100
    IN  IF r < 50 THEN q
        ELSE IF r > 50 THEN q + 1
        ELSE IF q % 2 = 0 THEN q ELSE q + 1

\* FontFamily.__getitem__(_i)
getitem(f, _i) ==
    IF 0 <= _i /\ _i < 10 THEN FontOut(_select(f, _i))
    ELSE IF 100 <= _i /\ _i <= 900 THEN FontOut(_select(f, RoundHundredth(_i)))
    ELSE FontIndexError

\* The configured variants, in ascending weight order.
Configured(f) == SelectSeq(_tuple(f), LAMBDA x : x # NoFont)

\* list.index: the 0-based position of the first element equal to x, -1 if none
IndexOf(s, x) ==
    IF \E i \in 1 .. Len(s) : s[i] = x
    THEN (CHOOSE i \in 1 .. Len(s) : s[i] = x /\ \A j \in 1 .. (i - 1) : s[j] # x) - 1
    ELSE -1

\* FontFamily.find_relative_font(delta, font)
find_relative_font(f, delta, font) ==
    LET ext == Configured(f)
        _font == IF font = NoFont THEN Regular(f) ELSE font
        at == IndexOf(ext, _font)
    IN  IF at < 0 THEN FontValueError
        ELSE LET found == at + delta
                 k == Max(0, Min(Len(ext), found))
             IN  IF k >= Len(ext) THEN FontIndexError ELSE FontOut(ext[k + 1])

\* Largest step tried in a relative lookup.
MaxDelta == 3

Deltas == (-MaxDelta) .. MaxDelta

\* Indices tried: the slots 0..9, weights at and around every half step, and
\* indices outside both ranges.
Indices ==
    (0 .. 9) \cup { 50 * k : k \in 2 .. 18 } \cup {449, 451, 849, 851}
        \cup {-1, 10, 99, 901, 1000}

IdleFam == [s \in Slots |-> IF s = RegularSlot THEN s ELSE NoFont]

IdleFres == [op |-> "none", arg |-> 0, font |-> NoFont, out |-> NoLookup]

GetItem ==
    /\ fres.op = "none"
    /\ \E i \in Indices :
          fres' = [op |-> "getitem", arg |-> i, font |-> NoFont, out |-> getitem(fam, i)]
    /\ UNCHANGED <<fam, geo, sgrVars, textVars, layVars>>

\* FontFamily.__add__(other) and find_relative_font(delta, font)
FindRelativeFont ==
    /\ fres.op = "none"
    /\ \E d \in Deltas, h \in {NoFont} \cup Slots :
          fres' = [op |-> "relative", arg |-> d, font |-> h,
                   out |-> find_relative_font(fam, d, h)]
    /\ UNCHANGED <<fam, geo, sgrVars, textVars, layVars>>

\* ------------------------------------------------------------------------
\* ansitool.SGRState
\* ------------------------------------------------------------------------

\* fg_rgb = None
NoRgb == << >>

\* SGRState(fg_default = d): the dataclass defaults
SGRState(d) ==
    [power |-> 0, italic |-> FALSE, uline |-> 0, hline |-> 0, strike |-> FALSE,
     font |-> 0, fg_default |-> d, fg |-> 0, fg_rgb |-> NoRgb, dot |-> FALSE]

\* A plausible slip: the reset forgets the RGB override.
ResetKeepsRgb(s) ==
    [s EXCEPT !.power = 0, !.uline = 0, !.hline = 0, !.font = 0,
              !.italic = FALSE, !.strike = FALSE, !.dot = FALSE,
              !.fg = s.fg_default]

\* set_state, op == 0
Reset(s) ==
    [s EXCEPT !.power = 0, !.uline = 0, !.hline = 0, !.font = 0,
              !.italic = FALSE, !.strike = FALSE, !.dot = FALSE,
              !.fg = s.fg_default, !.fg_rgb = NoRgb]

\* The opcodes the if/elif chain of set_state handles; any other one warns.
Handled(op) ==
    \/ op \in {0, 1, 2, 3, 4, 9, 23, 24, 29, 38, 39, 53, 55, 64, 65}
    \/ 10 <= op /\ op <= 19
    \/ 30 <= op /\ op <= 37
    \/ 90 <= op /\ op <= 97

\* A plausible slip: the font range test loses its lower bound, so that the
\* opcodes 5..8 select a font.
DispatchOpenFontRange(s, op) ==
    IF op = 0 THEN Reset(s)
    ELSE IF op = 1 THEN [s EXCEPT !.power = @ + 1]
    ELSE IF op = 2 THEN [s EXCEPT !.power = @ - 1]
    ELSE IF op = 3 THEN [s EXCEPT !.italic = TRUE]
    ELSE IF op = 4 THEN [s EXCEPT !.uline = @ + 1]
    ELSE IF op = 9 THEN [s EXCEPT !.strike = TRUE]
    ELSE IF 5 <= op /\ op <= 19 THEN [s EXCEPT !.font = op - 10]
    ELSE IF op = 23 THEN [s EXCEPT !.italic = FALSE]
    ELSE IF op = 24 THEN [s EXCEPT !.uline = @ - 1]
    ELSE IF op = 29 THEN [s EXCEPT !.strike = FALSE]
    ELSE IF 30 <= op /\ op <= 37 THEN [s EXCEPT !.fg = op - 30, !.fg_rgb = NoRgb]
    ELSE IF op = 38 THEN s
    ELSE IF op = 39 THEN [s EXCEPT !.fg = s.fg_default]
    ELSE IF op = 53 THEN [s EXCEPT !.hline = @ + 1]
    ELSE IF op = 55 THEN [s EXCEPT !.hline = @ - 1]
    ELSE IF op = 64 THEN [s EXCEPT !.dot = TRUE]
    ELSE IF op = 65 THEN [s EXCEPT !.dot = FALSE]
    ELSE IF 90 <= op /\ op <= 97 THEN [s EXCEPT !.fg = op - 82, !.fg_rgb = NoRgb]
    ELSE s

\* The if/elif chain of set_state on one opcode: its effect on the fields.
\* (op == 38 only raises the local flag op38; the last branch only warns.)
Dispatch(s, op) ==
    IF op = 0 THEN Reset(s)
    ELSE IF op = 1 THEN [s EXCEPT !.power = @ + 1]
    ELSE IF op = 2 THEN [s EXCEPT !.power = @ - 1]
    ELSE IF op = 3 THEN [s EXCEPT !.italic = TRUE]
    ELSE IF op = 4 THEN [s EXCEPT !.uline = @ + 1]
    ELSE IF op = 9 THEN [s EXCEPT !.strike = TRUE]
    ELSE IF 10 <= op /\ op <= 19 THEN [s EXCEPT !.font = op - 10]
    ELSE IF op = 23 THEN [s EXCEPT !.italic = FALSE]
    ELSE IF op = 24 THEN [s EXCEPT !.uline = @ - 1]
    ELSE IF op = 29 THEN [s EXCEPT !.strike = FALSE]
    ELSE IF 30 <= op /\ op <= 37 THEN [s EXCEPT !.fg = op - 30, !.fg_rgb = NoRgb]
    ELSE IF op = 38 THEN s
    ELSE IF op = 39 THEN [s EXCEPT !.fg = s.fg_default]
    ELSE IF op = 53 THEN [s EXCEPT !.hline = @ + 1]
    ELSE IF op = 55 THEN [s EXCEPT !.hline = @ - 1]
    ELSE IF op = 64 THEN [s EXCEPT !.dot = TRUE]
    ELSE IF op = 65 THEN [s EXCEPT !.dot = FALSE]
    ELSE IF 90 <= op /\ op <= 97 THEN [s EXCEPT !.fg = op - 82, !.fg_rgb = NoRgb]
    ELSE s

\* The locals of set_state as the call begins, around the object s.
\* warned lists the opcodes that reached warnings.warn.
CallStart(s) ==
    [s |-> s, op38 |-> FALSE, op38_256 |-> FALSE, op38_24 |-> 0,
     op38_24_tmp |-> << >>, warned |-> << >>]

\* Whether the loop body consumes op as part of an extended-colour sequence
\* (it ends in `continue`) instead of taking it to the if/elif chain.
Consumed(c, op) ==
    \/ c.op38_256
    \/ c.op38_24 # 0
    \/ c.op38 /\ op \in {5, 2}

\* One iteration of the loop of set_state.
LoopBody(c, op) ==
    IF c.op38_256
    THEN [c EXCEPT !.s = [c.s EXCEPT !.fg = op, !.fg_rgb = NoRgb],
                   !.op38 = FALSE, !.op38_256 = FALSE]
    ELSE IF c.op38_24 # 0
    THEN LET tmp == Append(c.op38_24_tmp, op)
         IN  IF c.op38_24 - 1 = 0
             THEN [c EXCEPT !.op38_24_tmp = tmp, !.op38_24 = 0,
                            !.s = [c.s EXCEPT !.fg_rgb = tmp],
                            !.op38 = FALSE, !.op38_256 = FALSE]
             ELSE [c EXCEPT !.op38_24_tmp = tmp, !.op38_24 = @ - 1]
    ELSE IF c.op38 /\ op = 5
    THEN [c EXCEPT !.op38_256 = TRUE]
    ELSE IF c.op38 /\ op = 2
    THEN [c EXCEPT !.op38_24 = 3]
    ELSE LET s1 == IF c.op38 THEN [c.s EXCEPT !.fg_rgb = NoRgb] ELSE c.s
         IN  [c EXCEPT !.s = Dispatch(s1, op),
                       !.op38 = (op = 38),
                       !.op38_256 = IF c.op38 THEN FALSE ELSE @,
                       !.warned = IF Handled(op) THEN @ ELSE Append(@, op)]

RECURSIVE Loop(_, _)
\* The for loop of set_state over the opcodes, from the locals c.
Loop(c, opcodes) ==
    IF opcodes = << >> THEN c
    ELSE Loop(LoopBody(c, Head(opcodes)), Tail(opcodes))

\* SGRState.set_state(*opcodes): the object after the call
set_state(s, opcodes) == Loop(CallStart(s), opcodes).s

\* Calls the model makes before it stops.
MaxCalls == 2

\* The opcodes tried alone: every documented one (the ends of each range),
\* and some that are not documented.
SingleOps ==
    {0, 1, 2, 3, 4, 9, 10, 19, 23, 24, 29, 30, 37, 38, 39, 53, 55, 64, 65, 90, 97}
        \cup {-1, 5, 8, 20, 98}

\* The opcodes tried in every pair.
PairOps == {0, 1, 2, 5, 31, 38, 39, 98}

\* Extended-colour sequences, whole, cut in two, doubled, and followed or
\* preceded by another opcode.
ColourCalls ==
    {<<38, 5, 3>>, <<38, 5, 0>>, <<5, 3>>, <<38, 5>>,
     <<38, 2, 1, 2, 3>>, <<38, 2>>, <<1, 2, 3>>, <<38, 2, 1>>, <<2, 3>>,
     <<2, 1, 2, 3>>, <<38, 2, 1, 2>>,
     <<38, 2, 1, 2, 3, 38, 2, 4, 5, 6>>, <<38, 2, 1, 2, 3, 98>>,
     <<38, 5, 98>>, <<38, 5, 3, 98>>, <<1, 38, 98>>, <<38, 2, 98, 98, 98>>}

Calls == { <<o>> : o \in SingleOps } \cup (PairOps \X PairOps) \cup ColourCalls

\* A state in which no field has its default value.
BusySGR(d) ==
    [power |-> 1, italic |-> TRUE, uline |-> 1, hline |-> -1, strike |-> TRUE,
     font |-> 3, fg_default |-> d, fg |-> 5, fg_rgb |-> <<10, 20, 30>>, dot |-> TRUE]

FgDefaults == {0, 7}

\* The objects a caller can construct: SGRState(fg_default=d) and one with
\* every field given.
InitialSGR == { SGRState(d) : d \in FgDefaults } \cup { BusySGR(d) : d \in FgDefaults }

IdleSGR == SGRState(0)

\* One call sgr.set_state(*ops).
SetState ==
    /\ ncalls < MaxCalls
    /\ \E ops \in Calls :
          /\ pre' = sgr
          /\ sgr' = set_state(sgr, ops)
          /\ lastOps' = ops
    /\ ncalls' = ncalls + 1
    /\ UNCHANGED <<geo, fam, fres, textVars, layVars>>

\* ------------------------------------------------------------------------
\* textwork: characters
\* ------------------------------------------------------------------------

\* Strings are sequences of code points.
ESC == 27

\* "\x1b[1m"
BoldSeq == <<27, 91, 49, 109>>

\* "word"
Word == <<119, 111, 114, 100>>

\* The characters c of the alphabets used here with c.isspace(): tab, line
\* feed, space.
Whitespace == {9, 10, 32}

\* WesternPuncRule
WesternLeft == {44, 46, 58, 59, 63, 33, 62, 41, 93, 125, 126, 37}

WesternRight == {60, 40, 91, 123, 36, 35, 64}

WesternBoth == {45, 95, 43, 61, 38, 94, 42, 47, 124, 92}

\* CJKPuncRule
CJKLeft ==
    {12290, 65292, 12289, 65307, 65306, 65311, 65281, 8221, 65289, 65376, 12299,
     12301, 12303, 12305, 12309, 12311, 12313, 12315, 12318, 183, 45, 65293, 65374}

CJKRight ==
    {8220, 65288, 65375, 12298, 12300, 12302, 12304, 12308, 12310, 12312, 12314, 12317}

CJKBoth == {8212, 8230, 65295, 65372}

\* The characters of the alphabets used here whose east_asian_width is F, W
\* or A: the ideograph U+4E2D and the CJK marks (all but the hyphen-minus).
EastAsianWide == {20013} \cup ((CJKLeft \cup CJKRight \cup CJKBoth) \ {45})

iseaw(c) == c \in EastAsianWide

isspace(c) == c \in Whitespace

_islb(c) == c \in WesternLeft \cup WesternBoth \/ c \in CJKLeft \cup CJKBoth

_isrb(c) == c \in WesternRight \cup WesternBoth \/ c \in CJKRight \cup CJKBoth

_ispunc(c) ==
    \/ c \in WesternLeft \cup WesternRight \cup WesternBoth
    \/ c \in CJKLeft \cup CJKRight \cup CJKBoth

\* s[k:] for a 0-based k
Drop(s, k) == SubSeq(s, k + 1, Len(s))

\* s[:k] for a 0-based k
Take(s, k) == SubSeq(s, 1, k)

\* ------------------------------------------------------------------------
\* ansitool.findcsiend, textwork.findword, textwork.split
\* ------------------------------------------------------------------------

\* ord(c) in range(0x40, 0x7f)
IsFinalByte(c) == 64 <= c /\ c < 127

\* A plausible slip: i + 2 for i + 3, which leaves the final byte out.
findcsiend_short(t) ==
    LET hits == { p \in 3 .. Len(t) : IsFinalByte(t[p]) }
    IN  IF hits = {} THEN Len(t)
        ELSE (CHOOSE p \in hits : \A q \in hits : p <= q) - 1

\* findcsiend(text): i + 3 for the first i with text[2:][i] a final byte,
\* len(text) if there is none
findcsiend(t) ==
    LET hits == { p \in 3 .. Len(t) : IsFinalByte(t[p]) }
    IN  IF hits = {} THEN Len(t)
        ELSE CHOOSE p \in hits : \A q \in hits : p <= q

\* findword(s): the index of the first wide, whitespace or ESC character,
\* len(s) if there is none
findword(s) ==
    LET hits == { p \in 1 .. Len(s) : iseaw(s[p]) \/ isspace(s[p]) \/ s[p] = ESC }
    IN  IF hits = {} THEN Len(s)
        ELSE (CHOOSE p \in hits : \A q \in hits : p <= q) - 1

\* The w that one iteration of split's loop computes at base b (before the
\* w == 0 case turns it into 1).
SplitWidth(t, b) ==
    IF t[b + 1] = ESC THEN findcsiend(Drop(t, b)) ELSE findword(Drop(t, b))

\* The step of base in one iteration of split's loop.
SplitAdvance(t, b) == IF SplitWidth(t, b) = 0 THEN 1 ELSE SplitWidth(t, b)

\* The token one iteration of split's loop appends at base b.
SplitToken(t, b) ==
    IF SplitWidth(t, b) = 0 THEN <<t[b + 1]>>
    ELSE SubSeq(t, b + 1, Min(Len(t), b + SplitWidth(t, b)))

RECURSIVE SplitFrom(_, _, _)
\* split's while loop run to its end from base b with the tokens r.
SplitFrom(t, b, r) ==
    IF b = Len(t) THEN r
    ELSE SplitFrom(t, b + SplitAdvance(t, b), Append(r, SplitToken(t, b)))

\* textwork.split(t)
split(t) == SplitFrom(t, 0, << >>)

\* ------------------------------------------------------------------------
\* textwork.combine
\* ------------------------------------------------------------------------

\* wd[0] == "\x1b"
IsStyle(wd) == wd[1] = ESC

\* res[-1] += wd
Fuse(r, wd) == [r EXCEPT ![Len(r)] = @ \o wd]

\* combine's locals before the loop
CombineStart(t) ==
    [res |-> <<t[1]>>, prb |-> FALSE,
     rb |-> (Len(t[1]) = 1 /\ _isrb(t[1][1])),
     psgr |-> IsStyle(t[1])]

\* A plausible slip: a left-binding mark is fused without looking at psgr.
CombineBodyNoStyleGuard(c, wd) ==
    IF IsStyle(wd)
    THEN [res |-> Append(c.res, wd), prb |-> FALSE, rb |-> FALSE, psgr |-> TRUE]
    ELSE LET absorb == c.rb /\ ~c.psgr
             c1 == IF absorb
                   THEN [c EXCEPT !.res = Fuse(c.res, wd), !.prb = TRUE, !.rb = FALSE]
                   ELSE c
             punc == Len(wd) = 1 /\ _ispunc(wd[1])
             cling == punc /\ _islb(wd[1])
             c2 == [c1 EXCEPT !.rb = IF punc THEN _isrb(wd[1]) ELSE @,
                              !.res = IF cling THEN Fuse(c1.res, wd) ELSE @,
                              !.prb = IF cling THEN TRUE ELSE @]
         IN  [res |-> IF c2.prb THEN c2.res ELSE Append(c2.res, wd),
              prb |-> FALSE, rb |-> c2.rb, psgr |-> FALSE]

\* One iteration of combine's loop on the token wd.
CombineBody(c, wd) ==
    IF IsStyle(wd)
    THEN [res |-> Append(c.res, wd), prb |-> FALSE, rb |-> FALSE, psgr |-> TRUE]
    ELSE LET absorb == c.rb /\ ~c.psgr
             c1 == IF absorb
                   THEN [c EXCEPT !.res = Fuse(c.res, wd), !.prb = TRUE, !.rb = FALSE]
                   ELSE c
             punc == Len(wd) = 1 /\ _ispunc(wd[1])
             cling == punc /\ _islb(wd[1]) /\ ~c1.psgr
             c2 == [c1 EXCEPT !.rb = IF punc THEN _isrb(wd[1]) ELSE @,
                              !.res = IF cling THEN Fuse(c1.res, wd) ELSE @,
                              !.prb = IF cling THEN TRUE ELSE @]
         IN  [res |-> IF c2.prb THEN c2.res ELSE Append(c2.res, wd),
              prb |-> FALSE, rb |-> c2.rb, psgr |-> FALSE]

RECURSIVE CombineLoop(_, _)
\* combine's for loop over t[1:]
CombineLoop(c, rest) ==
    IF rest = << >> THEN c
    ELSE CombineLoop(CombineBody(c, Head(rest)), Tail(rest))

\* textwork.combine(*t)
combine(t) ==
    IF t = << >> THEN << >>
    ELSE CombineLoop(CombineStart(t), Tail(t)).res

\* ------------------------------------------------------------------------
\* The text functions as operations
\* ------------------------------------------------------------------------

\* Longest text given to split.
MaxText == 5

\* Most tokens given to combine.
MaxTokens == 4

\* ESC, a digit (a parameter byte), "m" (a final byte), space, U+4E2D
SplitAlphabet == {27, 49, 109, 32, 20013}

SplitTexts == UNION { [1 .. n -> SplitAlphabet] : n \in 0 .. MaxText }

\* "word", "a", ",", "(", "-", " ", "\x1b[1m", U+4E2D, U+FF0C, U+300A
CombineTokens ==
    {Word, <<97>>, <<44>>, <<40>>, <<45>>, <<32>>, BoldSeq, <<20013>>, <<65292>>, <<12298>>}

CombineInputs == UNION { [1 .. n -> CombineTokens] : n \in 0 .. MaxTokens }

IdleText ==
    /\ text = << >>
    /\ base = 0
    /\ res = << >>
    /\ toks = << >>
    /\ comb = << >>
    /\ tpc = "idle"

\* One iteration of the while loop of split(text).
SplitStep ==
    /\ tpc = "split"
    /\ base # Len(text)
    /\ res' = Append(res, SplitToken(text, base))
    /\ base' = base + SplitAdvance(text, base)
    /\ UNCHANGED <<text, toks, comb, tpc>>
    /\ UNCHANGED <<geo, fam, fres, sgrVars, layVars>>

\* split leaves its loop and returns res.
SplitReturn ==
    /\ tpc = "split"
    /\ base = Len(text)
    /\ tpc' = "done"
    /\ UNCHANGED <<text, base, res, toks, comb>>
    /\ UNCHANGED <<geo, fam, fres, sgrVars, layVars>>

\* The call combine(*toks).
Combine ==
    /\ tpc = "combine"
    /\ comb' = combine(toks)
    /\ tpc' = "done"
    /\ UNCHANGED <<text, base, res, toks>>
    /\ UNCHANGED <<geo, fam, fres, sgrVars, layVars>>

\* ------------------------------------------------------------------------
\* canvas.TextDrawState and the external glyph provider
\* ------------------------------------------------------------------------

RECURSIVE Gcd(_, _)
Gcd(a, b) == IF b = 0 THEN a ELSE Gcd(b, a % b)

\* The x of curpos is a Python float: here the exact fraction n / d, d > 0.
Rat(n, d) ==
    LET g == Gcd(Abs(n), d)
    IN  [n |-> n \div g, d |-> d \div g]

RatInt(k) == [n |-> k, d |-> 1]

RatAdd(a, b) == Rat(a.n * b.d + b.n * a.d, a.d * b.d)

\* A font table entry without an italic family (None).
NoFamily == << >>

\* FontFamily(Regular=..., Bold=...): the handle of a slot is its number.
UprightFamily == [s \in Slots |-> IF s \in {RegularSlot, BoldSlot} THEN s ELSE NoFont]

\* TextDrawState.current_font
current_font(t) ==
    IF ~(0 <= t.sgr.font /\ t.sgr.font < Len(t.fonts))
    THEN FontIndexError
    ELSE LET pair == t.fonts[t.sgr.font + 1]
             family == IF t.sgr.italic /\ pair[2] # NoFamily THEN pair[2] ELSE pair[1]
         IN  find_relative_font(family, t.sgr.power, NoFont)

\* TextDrawState.current_color: RGBA(*fg_rgb), or the palette entry of fg in
\* the 256-colour table.
current_color(t) ==
    IF t.sgr.fg_rgb # NoRgb
    THEN IF Len(t.sgr.fg_rgb) <= 4
         THEN [kind |-> "rgba", v |-> t.sgr.fg_rgb]
         ELSE [kind |-> "TypeError", v |-> << >>]
    ELSE IF -256 <= t.sgr.fg /\ t.sgr.fg < 256
         THEN [kind |-> "palette", v |-> <<(t.sgr.fg + 256) % 256>>]
         ELSE [kind |-> "IndexError", v |-> << >>]

\* U+200B, a character the glyph provider gives no width.
ZeroWidth == 8203

\* The glyph provider (ImageDraw.textbbox): every narrow character and every
\* space is 1 wide and 2 high, a wide character is 2 wide and 4 high, U+200B
\* is 0 wide, and a font from the Bold slot on adds 1 to the width of every
\* other character.
CharWidth(c, font) ==
    IF c = ZeroWidth THEN 0
    ELSE (IF iseaw(c) THEN 2 ELSE 1) + (IF font >= BoldSlot THEN 1 ELSE 0)

CharHeight(c) == IF iseaw(c) THEN 4 ELSE 2

RECURSIVE TextWidth(_, _)
TextWidth(wd, font) ==
    IF wd = << >> THEN 0 ELSE CharWidth(Head(wd), font) + TextWidth(Tail(wd), font)

RECURSIVE TextHeight(_)
TextHeight(wd) ==
    IF wd = << >> THEN 0 ELSE Max(CharHeight(Head(wd)), TextHeight(Tail(wd)))

\* draw.textbbox((0, 0), wd, font, "la")[2:]
textbbox(wd, font) == [w |-> TextWidth(wd, font), h |-> TextHeight(wd)]

\* wd.strip() is non-empty
HasInk(wd) == \E i \in 1 .. Len(wd) : ~isspace(wd[i])

\* ------------------------------------------------------------------------
\* canvas.RichCanvas._draw_text
\* ------------------------------------------------------------------------

RECURSIVE SplitOn(_, _)
\* str.split(sep) for a one-character sep
SplitOn(q, sep) ==
    LET hits == { p \in 1 .. Len(q) : q[p] = sep }
    IN  IF hits = {} THEN <<q>>
        ELSE LET p == CHOOSE x \in hits : \A y \in hits : x <= y
             IN  <<Take(q, p - 1)>> \o SplitOn(Drop(q, p), sep)

IsDigits(q) == q # << >> /\ \A i \in 1 .. Len(q) : 48 <= q[i] /\ q[i] <= 57

RECURSIVE Decimal(_)
Decimal(q) == IF q = << >> THEN 0 ELSE 10 * Decimal(Take(q, Len(q) - 1)) + (Last(q) - 48)

\* q.strip()
Strip(q) ==
    LET ink == { p \in 1 .. Len(q) : ~isspace(q[p]) }
    IN  IF ink = {} THEN << >>
        ELSE SubSeq(q, CHOOSE x \in ink : \A y \in ink : x <= y,
                       CHOOSE x \in ink : \A y \in ink : x >= y)

\* [int(opc) for opc in wd[2:-1].split(";")]: int() ignores whitespace
\* around the number and raises ValueError on a piece that is then empty or
\* (in the alphabets used here) not all digits.
ParseParams(wd) ==
    LET pieces == SplitOn(SubSeq(wd, 3, Len(wd) - 1), 59)
    IN  IF \A i \in 1 .. Len(pieces) : IsDigits(Strip(pieces[i]))
        THEN [ok |-> TRUE,
              ops |-> [i \in 1 .. Len(pieces) |-> Decimal(Strip(pieces[i]))]]
        ELSE [ok |-> FALSE, ops |-> << >>]

\* The running _draw_text: the state object, the paint log and the exception
\* raised ("none" while there is none).
DrawStart(t, log) == [st |-> t, paints |-> log, fault |-> "none"]

\* A plausible slip: the cursor moves on by the remainder share only, not by
\* the width of the token painted.
DrawBodyNoAdvance(d, e, breadcrumb, n) ==
    IF IsStyle(e[1])
    THEN LET params == ParseParams(e[1])
         IN  IF params.ok
             THEN [d EXCEPT !.st.sgr = set_state(d.st.sgr, params.ops)]
             ELSE [d EXCEPT !.fault = "ValueError"]
    ELSE IF e[2] = 0
    THEN [d EXCEPT !.fault = "RuntimeError"]
    ELSE LET colour == current_color(d.st)
             font == current_font(d.st)
             cx == d.st.curpos[1]
             cy == d.st.curpos[2]
         IN  IF colour.kind \in {"TypeError", "IndexError"}
             THEN [d EXCEPT !.fault = colour.kind]
             ELSE IF font.kind # "font"
             THEN [d EXCEPT !.fault = font.kind]
             ELSE [d EXCEPT
                     !.paints = Append(@, [wd |-> e[1],
                                           x |-> RatAdd(cx, RatInt(d.st.land.x)),
                                           y |-> cy + d.st.land.y,
                                           colour |-> colour,
                                           font |-> font.font]),
                     !.st.curpos = <<RatAdd(cx, Rat(breadcrumb, n)), cy>>]

\* A plausible slip: the test for a token without width left out.
DrawBodyNoWidthCheck(d, e, breadcrumb, n) ==
    IF IsStyle(e[1])
    THEN LET params == ParseParams(e[1])
         IN  IF params.ok
             THEN [d EXCEPT !.st.sgr = set_state(d.st.sgr, params.ops)]
             ELSE [d EXCEPT !.fault = "ValueError"]
    ELSE LET colour == current_color(d.st)
             font == current_font(d.st)
             cx == d.st.curpos[1]
             cy == d.st.curpos[2]
         IN  IF colour.kind \in {"TypeError", "IndexError"}
             THEN [d EXCEPT !.fault = colour.kind]
             ELSE IF font.kind # "font"
             THEN [d EXCEPT !.fault = font.kind]
             ELSE [d EXCEPT
                     !.paints = Append(@, [wd |-> e[1],
                                           x |-> RatAdd(cx, RatInt(d.st.land.x)),
                                           y |-> cy + d.st.land.y,
                                           colour |-> colour,
                                           font |-> font.font]),
                     !.st.curpos = <<RatAdd(RatAdd(cx, RatInt(e[2])), Rat(breadcrumb, n)), cy>>]

\* One iteration of the loop of _draw_text on the queue entry e.
DrawBody(d, e, breadcrumb, n) ==
    IF IsStyle(e[1])
    THEN LET params == ParseParams(e[1])
         IN  IF params.ok
             THEN [d EXCEPT !.st.sgr = set_state(d.st.sgr, params.ops)]
             ELSE [d EXCEPT !.fault = "ValueError"]
    ELSE IF e[2] = 0
    THEN [d EXCEPT !.fault = "RuntimeError"]
    ELSE LET colour == current_color(d.st)
             font == current_font(d.st)
             cx == d.st.curpos[1]
             cy == d.st.curpos[2]
         IN  IF colour.kind \in {"TypeError", "IndexError"}
             THEN [d EXCEPT !.fault = colour.kind]
             ELSE IF font.kind # "font"
             THEN [d EXCEPT !.fault = font.kind]
             ELSE [d EXCEPT
                     !.paints = Append(@, [wd |-> e[1],
                                           x |-> RatAdd(cx, RatInt(d.st.land.x)),
                                           y |-> cy + d.st.land.y,
                                           colour |-> colour,
                                           font |-> font.font]),
                     !.st.curpos = <<RatAdd(RatAdd(cx, RatInt(e[2])), Rat(breadcrumb, n)), cy>>]

RECURSIVE DrawLoop(_, _, _, _)
DrawLoop(d, textq, breadcrumb, n) ==
    IF textq = << >> \/ d.fault # "none" THEN d
    ELSE DrawLoop(DrawBody(d, Head(textq), breadcrumb, n), Tail(textq), breadcrumb, n)

\* _draw_text(state, textq, breadcrumb, nstyle), painting onto the log
_draw_text(t, textq, breadcrumb, nstyle, log) ==
    DrawLoop(DrawStart(t, log), textq, breadcrumb, Max(1, Len(textq) - 1 - nstyle))

\* ------------------------------------------------------------------------
\* canvas.RichCanvas._text and RichCanvas.text
\* ------------------------------------------------------------------------

\* str.splitlines() on the alphabets used here, where the only line boundary
\* is the line feed: a final line feed opens no further line.
splitlines(t) ==
    LET parts == SplitOn(t, 10)
    IN  IF Last(parts) = << >> THEN Take(parts, Len(parts) - 1) ELSE parts

\* The locals of _text as its loop begins on the hard line lns; i is the
\* 1-based position of the loop in sp and exc the exception raised.
TextStart(lns) ==
    [sp |-> combine(split(lns)), i |-> 1, rq |-> << >>, rw |-> 0, rh |-> 0,
     ws |-> 0, wsw |-> 0, lwr |-> TRUE, sty |-> 0, exc |-> "none"]

NoLocals == TextStart(<< >>)

\* What one flush hands to _draw_text, and what it found and left: the
\* tokens of the hard line, the line width rw and the strip counters at the
\* time, the entries popped, the queue
\* painted, the remainder, the style count, the token that forced the break
\* (empty at the end of a hard line), the range of paint calls made and the
\* cursor y before and after.
Flush(forced, l, popped, q, crb, trigger, rh, p0, p1, y0, y1) ==
    [forced |-> forced, sp |-> l.sp, rw |-> l.rw, ws |-> l.ws, wsw |-> l.wsw,
     popped |-> popped, queue |-> q, crb |-> crb, nstyle |-> l.sty,
     trigger |-> trigger, rh |-> rh, p0 |-> p0, p1 |-> p1, y0 |-> y0, y1 |-> y1]

\* The running iteration of _text: locals, state object, paint log, flush log.
Frame(l, t, ps, fs) == [lo |-> l, st |-> t, paints |-> ps, flushes |-> fs]

\* The body of "if rw + w > st.land.w" for the token wd of height h, with rh
\* already raised to rh1.
BreakLine(c, wd, rh1, justify) ==
    LET l == c.lo
        crb == IF justify THEN c.st.land.w - l.rw + l.wsw ELSE 0
    IN  IF l.ws > Len(l.rq)
        THEN \* rq.pop() on the emptied deque
             [c EXCEPT !.lo.rq = << >>, !.lo.exc = "IndexError"]
        ELSE LET q == Take(l.rq, Len(l.rq) - l.ws)
                 popped == Drop(l.rq, Len(l.rq) - l.ws)
                 d == _draw_text(c.st, q, crb, l.sty, c.paints)
                 cy == d.st.curpos[2]
                 y1 == cy + rh1 + d.st.spacing
             IN  IF d.fault # "none"
                 THEN [c EXCEPT !.lo.rq = q, !.lo.exc = d.fault,
                                !.st = d.st, !.paints = d.paints]
                 ELSE [lo |-> [l EXCEPT !.rq = << >>, !.sty = 0, !.rw = 0, !.rh = 0],
                       st |-> [d.st EXCEPT !.curpos = <<RatInt(0), y1>>],
                       paints |-> d.paints,
                       flushes |-> Append(c.flushes,
                                     Flush(TRUE, l, popped, q, crb, wd, rh1,
                                           Len(c.paints), Len(d.paints), cy, y1))]

\* The rest of the loop body: skip a non-leading whitespace on an empty
\* queue, else queue the token and keep the strip counters.
Place(c, wd, w) ==
    LET l == c.lo
    IN  IF l.rq = << >> /\ ~HasInk(wd) /\ ~l.lwr
        THEN [c EXCEPT !.lo.i = @ + 1]
        ELSE IF HasInk(wd)
        THEN [c EXCEPT !.lo.i = @ + 1, !.lo.rw = @ + w,
                       !.lo.rq = Append(@, <<wd, w>>),
                       !.lo.lwr = FALSE, !.lo.ws = 0, !.lo.wsw = 0]
        ELSE [c EXCEPT !.lo.i = @ + 1, !.lo.rw = @ + w,
                       !.lo.rq = Append(@, <<wd, w>>),
                       !.lo.ws = @ + 1, !.lo.wsw = @ + w]

\* One iteration of the loop of _text on a text token wd.
TextBody(c, wd, justify) ==
    LET font == current_font(c.st)
    IN  IF font.kind # "font"
        THEN [c EXCEPT !.lo.exc = font.kind]
        ELSE LET bb == textbbox(wd, font.font)
                 rh1 == Max(Max(bb.h, c.lo.rh), c.st.lineheight)
                 raised == [c EXCEPT !.lo.rh = rh1]
             IN  IF c.lo.rw + bb.w > c.st.land.w
                 THEN LET b == BreakLine(raised, wd, rh1, justify)
                      IN  IF b.lo.exc # "none" THEN b ELSE Place(b, wd, bb.w)
                 ELSE Place(raised, wd, bb.w)

\* A plausible slip: the last line advances by the height observed, without
\* the line height as its least value.
TextEndBareHeight(c) ==
    LET l == c.lo
        d == _draw_text(c.st, l.rq, 0, 0, c.paints)
        cy == d.st.curpos[2]
        y1 == cy + l.rh + d.st.spacing
    IN  IF d.fault # "none"
        THEN [c EXCEPT !.lo.exc = d.fault, !.st = d.st, !.paints = d.paints]
        ELSE [lo |-> [l EXCEPT !.rq = << >>],
              st |-> [d.st EXCEPT !.curpos = <<RatInt(0), y1>>],
              paints |-> d.paints,
              flushes |-> Append(c.flushes,
                            Flush(FALSE, l, << >>, l.rq, 0, << >>, l.rh,
                                  Len(c.paints), Len(d.paints), cy, y1))]

\* The statements of _text after its loop.
TextEnd(c) ==
    LET l == c.lo
        d == _draw_text(c.st, l.rq, 0, 0, c.paints)
        cy == d.st.curpos[2]
        y1 == cy + Max(l.rh, d.st.lineheight) + d.st.spacing
    IN  IF d.fault # "none"
        THEN [c EXCEPT !.lo.exc = d.fault, !.st = d.st, !.paints = d.paints]
        ELSE [lo |-> [l EXCEPT !.rq = << >>],
              st |-> [d.st EXCEPT !.curpos = <<RatInt(0), y1>>],
              paints |-> d.paints,
              flushes |-> Append(c.flushes,
                            Flush(FALSE, l, << >>, l.rq, 0, << >>, l.rh,
                                  Len(c.paints), Len(d.paints), cy, y1))]

\* ------------------------------------------------------------------------
\* Layout as operations
\* ------------------------------------------------------------------------

\* Pieces a text is put together from, at most.
MaxPieces == 4

\* "a", " ", "\n", U+4E2D, U+200B, "\x1b[1m" and the unterminated "\x1b[1".
LayoutPieces ==
    {<<97>>, <<32>>, <<10>>, <<20013>>, <<ZeroWidth>>, BoldSeq, Take(BoldSeq, 3)}

RECURSIVE TextsOf(_)
\* The texts of at most k pieces.
TextsOf(k) ==
    IF k = 0 THEN {<< >>}
    ELSE LET shorter == TextsOf(k - 1)
         IN  shorter \cup { t \o p : t \in shorter, p \in LayoutPieces }

LayoutTexts == TextsOf(MaxPieces)

\* Widths of the region: narrower than a bold or wide character, as wide as
\* one, and wide enough for two wide characters with room to spare.
RegionWidths == {1, 2, 5}

\* FontFamily(Regular=..., Bold=...) as the upright family of font 0, with no
\* italic family.
LayoutFonts == <<<<UprightFamily, NoFamily>>>>

\* TextDrawState(land, avoid, fonts, lineheight) with a region w wide whose
\* corner is off the origin, lineheight 3 between the two glyph heights, and
\* the defaults of the other fields.
TextDrawState(w) ==
    [land |-> Rect(1, 1, w, 9), fonts |-> LayoutFonts, lineheight |-> 3,
     curpos |-> <<RatInt(0), 0>>, spacing |-> 4, sgr |-> SGRState(0)]

\* The style states a caller hands over with the state object: the default
\* one, and the one an earlier text left bold.
LayoutStyles == {SGRState(0), set_state(SGRState(0), <<1>>)}

\* The state objects tried.
LayoutStates ==
    { [TextDrawState(w) EXCEPT !.sgr = s] : w \in RegionWidths, s \in LayoutStyles }

IdleLayout ==
    /\ ltext = [text |-> << >>, justify |-> FALSE]
    /\ st = TextDrawState(1)
    /\ lines = << >>
    /\ lo = NoLocals
    /\ paints = << >>
    /\ flushes = << >>
    /\ lpc = "idle"

\* What an iteration leaves in the variables; an exception ends the call.
Leave(c, next) ==
    /\ lo' = c.lo
    /\ st' = c.st
    /\ paints' = c.paints
    /\ flushes' = c.flushes
    /\ lpc' = IF c.lo.exc # "none" THEN "fault" ELSE next

\* canvas.text(state, text, justify=...): text.splitlines()
Text ==
    /\ lpc = "call"
    /\ lines' = splitlines(ltext.text)
    /\ lpc' = "line"
    /\ UNCHANGED <<ltext, st, lo, paints, flushes>>
    /\ UNCHANGED <<rectVars, fontVars, sgrVars, textVars>>

\* The call of _text on the next hard line, up to its loop.
TextLine ==
    /\ lpc = "line"
    /\ lines # << >>
    /\ lo' = TextStart(Head(lines))
    /\ lines' = Tail(lines)
    /\ lpc' = "loop"
    /\ UNCHANGED <<ltext, st, paints, flushes>>
    /\ UNCHANGED <<rectVars, fontVars, sgrVars, textVars>>

\* An iteration of the loop of _text on a style token.
StyleToken ==
    /\ lpc = "loop"
    /\ lo.i <= Len(lo.sp)
    /\ IsStyle(lo.sp[lo.i])
    /\ lo' = [lo EXCEPT !.i = @ + 1, !.sty = @ + 1,
                        !.rq = Append(@, <<lo.sp[lo.i], 0>>)]
    /\ UNCHANGED <<ltext, st, lines, paints, flushes, lpc>>
    /\ UNCHANGED <<rectVars, fontVars, sgrVars, textVars>>

\* An iteration of the loop of _text on a text token.
TextToken ==
    /\ lpc = "loop"
    /\ lo.i <= Len(lo.sp)
    /\ ~IsStyle(lo.sp[lo.i])
    /\ Leave(TextBody(Frame(lo, st, paints, flushes), lo.sp[lo.i], ltext.justify), "loop")
    /\ UNCHANGED <<ltext, lines>>
    /\ UNCHANGED <<rectVars, fontVars, sgrVars, textVars>>

\* The end of _text: the last flush and the cursor's move to the next line.
TextLineEnd ==
    /\ lpc = "loop"
    /\ lo.i > Len(lo.sp)
    /\ Leave(TextEnd(Frame(lo, st, paints, flushes)), "line")
    /\ UNCHANGED <<ltext, lines>>
    /\ UNCHANGED <<rectVars, fontVars, sgrVars, textVars>>

\* The return of canvas.text after the last hard line.
TextReturn ==
    /\ lpc = "line"
    /\ lines = << >>
    /\ lpc' = "done"
    /\ UNCHANGED <<ltext, st, lines, lo, paints, flushes>>
    /\ UNCHANGED <<rectVars, fontVars, sgrVars, textVars>>

\* ------------------------------------------------------------------------
\* Specifications
\* ------------------------------------------------------------------------

InitRect ==
    /\ geo \in [lt : Points, rb : Points, out : {NoRect}]
    /\ fam = IdleFam
    /\ fres = IdleFres
    /\ sgr = IdleSGR
    /\ pre = IdleSGR
    /\ lastOps = << >>
    /\ ncalls = 0
    /\ IdleText
    /\ IdleLayout

NextRect == FromLtrb

SpecRect == InitRect /\ [][NextRect]_vars

InitFont ==
    /\ geo = IdleGeo
    /\ fam \in Families
    /\ fres = IdleFres
    /\ sgr = IdleSGR
    /\ pre = IdleSGR
    /\ lastOps = << >>
    /\ ncalls = 0
    /\ IdleText
    /\ IdleLayout

NextFont == GetItem \/ FindRelativeFont

SpecFont == InitFont /\ [][NextFont]_vars

InitSGR ==
    /\ geo = IdleGeo
    /\ fam = IdleFam
    /\ fres = IdleFres
    /\ sgr \in InitialSGR
    /\ pre = sgr
    /\ lastOps = << >>
    /\ ncalls = 0
    /\ IdleText
    /\ IdleLayout

NextSGR == SetState

InitSplit ==
    /\ geo = IdleGeo
    /\ fam = IdleFam
    /\ fres = IdleFres
    /\ sgr = IdleSGR
    /\ pre = IdleSGR
    /\ lastOps = << >>
    /\ ncalls = 0
    /\ text \in SplitTexts
    /\ base = 0
    /\ res = << >>
    /\ toks = << >>
    /\ comb = << >>
    /\ tpc = "split"
    /\ IdleLayout

NextSplit == SplitStep \/ SplitReturn

SpecSplit == InitSplit /\ [][NextSplit]_vars

InitCombine ==
    /\ geo = IdleGeo
    /\ fam = IdleFam
    /\ fres = IdleFres
    /\ sgr = IdleSGR
    /\ pre = IdleSGR
    /\ lastOps = << >>
    /\ ncalls = 0
    /\ text = << >>
    /\ base = 0
    /\ res = << >>
    /\ toks \in CombineInputs
    /\ comb = << >>
    /\ tpc = "combine"
    /\ IdleLayout

NextCombine == Combine

SpecCombine == InitCombine /\ [][NextCombine]_vars

InitLayout ==
    /\ geo = IdleGeo
    /\ fam = IdleFam
    /\ fres = IdleFres
    /\ sgr = IdleSGR
    /\ pre = IdleSGR
    /\ lastOps = << >>
    /\ ncalls = 0
    /\ IdleText
    /\ ltext \in [text : LayoutTexts, justify : BOOLEAN]
    /\ st \in LayoutStates
    /\ lines = << >>
    /\ lo = NoLocals
    /\ paints = << >>
    /\ flushes = << >>
    /\ lpc = "call"

NextLayout == Text \/ TextLine \/ StyleToken \/ TextToken \/ TextLineEnd \/ TextReturn

SpecLayout == InitLayout /\ [][NextLayout]_vars

SpecSGR == InitSGR /\ [][NextSGR]_vars

\* ------------------------------------------------------------------------
\* Claims about Rect.from_ltrb
\* ------------------------------------------------------------------------

Called == geo.out.kind # "none"

CalledWith(lt, rb) == Called /\ geo.lt = lt /\ geo.rb = rb

\* C1 as stated: from_ltrb((0,0),(10,20)) yields width 10 and height 20,
\* from_ltrb((10,0),(0,20)) yields the same rectangle, and
\* from_ltrb((10,0),(0,-5)) fails with a construction error.
C1_PerAxisOrderIndependent ==
    /\ CalledWith(<<0, 0>>, <<10, 20>>) => geo.out = Rect(0, 0, 10, 20)
    /\ CalledWith(<<10, 0>>, <<0, 20>>) => geo.out = Rect(0, 0, 10, 20)
    /\ CalledWith(<<10, 0>>, <<0, -5>>) => geo.out.kind = "ArithmeticError"

\* C1 amended: from_ltrb((0,0),(10,20)) yields width 10 and height 20; the
\* order of the two points is free only when both axes are reversed together
\* (from_ltrb((10,20),(0,0)) yields the same rectangle); from_ltrb((10,0),(0,20)),
\* where x descends and y ascends, fails with a construction error; and
\* from_ltrb((10,0),(0,-5)), where both descend, returns x=0, y=-5, w=10, h=5.
C1_BothAxesOrderIndependent ==
    /\ CalledWith(<<0, 0>>, <<10, 20>>) => geo.out = Rect(0, 0, 10, 20)
    /\ CalledWith(<<10, 20>>, <<0, 0>>) => geo.out = Rect(0, 0, 10, 20)
    /\ CalledWith(<<10, 0>>, <<0, 20>>) => geo.out.kind = "ArithmeticError"
    /\ CalledWith(<<10, 0>>, <<0, -5>>) => geo.out = Rect(0, -5, 10, 5)

C1_Witness ==
    /\ CalledWith(<<10, 0>>, <<0, 20>>)
    /\ geo.out.kind = "ArithmeticError"

Ascending(a, b) == a < b

Descending(a, b) == a > b

\* C2 as stated: from_ltrb fails exactly when one coordinate pair is ascending
\* while the other is descending; in every other case it returns the rectangle
\* with x = min of the x values, y = min of the y values, w = |dx| >= 0 and
\* h = |dy| >= 0.
C2_FailsExactlyOnDisagreement ==
    Called =>
        LET x1 == geo.lt[1]
            y1 == geo.lt[2]
            x2 == geo.rb[1]
            y2 == geo.rb[2]
            disagree == \/ Ascending(x1, x2) /\ Descending(y1, y2)
                        \/ Descending(x1, x2) /\ Ascending(y1, y2)
        IN  IF disagree
            THEN geo.out.kind = "ArithmeticError"
            ELSE /\ geo.out = Rect(Min(x1, x2), Min(y1, y2), Abs(x2 - x1), Abs(y2 - y1))
                 /\ geo.out.w >= 0
                 /\ geo.out.h >= 0

\* ------------------------------------------------------------------------
\* Claims about FontFamily
\* ------------------------------------------------------------------------

OnlyRegularAndBold == \A s \in Slots : fam[s] # NoFont <=> s \in {RegularSlot, BoldSlot}

Indexed(i) == fres.op = "getitem" /\ fres.arg = i

\* The configured slot nearest to weight w (the lighter one on a tie).
NearestConfigured(w) ==
    LET conf == { s \in Slots : fam[s] # NoFont }
    IN  CHOOSE s \in conf :
            \A u \in conf : \/ Abs(100 * s - w) < Abs(100 * u - w)
                            \/ Abs(100 * s - w) = Abs(100 * u - w) /\ s <= u

\* C3 as stated: indexing by a weight in 100..900 resolves to the nearest
\* configured variant; with only Regular and Bold configured, weight 450
\* resolves to Regular and weight 900 resolves to Bold.
C3_NearestConfigured ==
    /\ (fres.op = "getitem" /\ 100 <= fres.arg /\ fres.arg <= 900)
          => fres.out = FontOut(fam[NearestConfigured(fres.arg)])
    /\ (OnlyRegularAndBold /\ Indexed(450)) => fres.out = FontOut(fam[RegularSlot])
    /\ (OnlyRegularAndBold /\ Indexed(900)) => fres.out = FontOut(fam[BoldSlot])

\* C3 amended: indexing by a weight w in 100..900 resolves to the variant of
\* the slot whose weight is within 50 of w (the even hundred when w is exactly
\* halfway) when that slot is configured, and to Regular when it is not; with
\* only Regular and Bold configured, weight 450 resolves to Regular, weight 700
\* to Bold and weight 900 to Regular.
C3_RoundedSlotOrRegular ==
    /\ (fres.op = "getitem" /\ 100 <= fres.arg /\ fres.arg <= 900) =>
          \E s \in Slots :
             /\ \/ Abs(100 * s - fres.arg) < 50
                \/ Abs(100 * s - fres.arg) = 50 /\ s % 2 = 0
             /\ fres.out = FontOut(IF fam[s] # NoFont THEN fam[s] ELSE fam[RegularSlot])
    /\ (OnlyRegularAndBold /\ Indexed(450)) => fres.out = FontOut(fam[RegularSlot])
    /\ (OnlyRegularAndBold /\ Indexed(700)) => fres.out = FontOut(fam[BoldSlot])
    /\ (OnlyRegularAndBold /\ Indexed(900)) => fres.out = FontOut(fam[RegularSlot])

C3_Witness ==
    /\ OnlyRegularAndBold
    /\ Indexed(900)
    /\ fres.out = FontOut(fam[RegularSlot])

\* C4 as stated: find_relative_font(delta) walks the configured variants in
\* ascending weight order and clamps at both ends: for every delta and every
\* family it returns a configured variant (the lightest when the step runs
\* below the first, the heaviest when it runs past the last), never raising.
C4_RelativeClamps ==
    (fres.op = "relative" /\ fres.font = NoFont) =>
        LET ext == Configured(fam)
            target == IndexOf(ext, Regular(fam)) + fres.arg
        IN  /\ fres.out.kind = "font"
            /\ \E i \in 1 .. Len(ext) : fres.out.font = ext[i]
            /\ target < 0 => fres.out.font = ext[1]
            /\ target >= Len(ext) => fres.out.font = ext[Len(ext)]
            /\ (0 <= target /\ target < Len(ext)) => fres.out.font = ext[target + 1]

\* ------------------------------------------------------------------------
\* Claims about SGRState.set_state
\* ------------------------------------------------------------------------

\* The locals of the last call just before its i-th opcode was processed.
Before(i) == Loop(CallStart(pre), SubSeq(lastOps, 1, i - 1))

\* The i-th opcode of the last call went to the if/elif chain.
AsOpcode(i) == ~Consumed(Before(i), lastOps[i])

\* The documented default state of an object whose default foreground is d.
DefaultState(d) ==
    [power |-> 0, uline |-> 0, hline |-> 0, font |-> 0,
     italic |-> FALSE, strike |-> FALSE, dot |-> FALSE,
     fg |-> d, fg_rgb |-> NoRgb, fg_default |-> d]

\* C5: from any state reached by set_state calls, applying opcode 0 yields the
\* default state (power, uline, hline, font 0; italic, strike, dot false; fg
\* equal to fg_default; fg_rgb unset), and applying 0 again changes nothing.
C5_ResetYieldsDefault ==
    (ncalls > 0 /\ Last(lastOps) = 0 /\ AsOpcode(Len(lastOps))) =>
        /\ sgr = DefaultState(pre.fg_default)
        /\ set_state(sgr, <<0>>) = sgr

C5_Witness ==
    /\ ncalls > 0
    /\ lastOps = <<0>>
    /\ pre.fg_rgb # NoRgb /\ pre.power # 0 /\ pre.italic /\ pre.fg # pre.fg_default
    /\ sgr = DefaultState(pre.fg_default)

\* What the claim promises of an opcode stream read from the state start and
\* ending in the state post.
ExtendedColourAtomic(start, stream, post) ==
    /\ (Len(stream) = 3 /\ stream[1] = 38 /\ stream[2] = 5) =>
          post = [start EXCEPT !.fg = stream[3], !.fg_rgb = NoRgb]
    /\ (Len(stream) = 5 /\ stream[1] = 38 /\ stream[2] = 2) =>
          post = [start EXCEPT !.fg_rgb = <<stream[3], stream[4], stream[5]>>]
    /\ (Len(stream) = 10 /\ stream[1] = 38 /\ stream[2] = 2
            /\ stream[6] = 38 /\ stream[7] = 2) =>
          post = [start EXCEPT !.fg_rgb = <<stream[8], stream[9], stream[10]>>]

\* C6 as stated: an extended-colour sequence consumes its operands atomically
\* however the opcodes are split across set_state calls: after 38,5,n the
\* foreground index is n with no RGB override, after 38,2,r,g,b the override
\* is (r,g,b), and no consumed opcode acts as an ordinary opcode, whether the
\* opcodes arrive in one call (the first disjunct) or in the first two calls
\* (the second).
C6_ExtendedColourAtomic ==
    [][/\ ExtendedColourAtomic(sgr, lastOps', sgr')
       /\ ncalls = 1 => ExtendedColourAtomic(pre, lastOps \o lastOps', sgr')]_vars

\* The locals of the last call just after its i-th opcode was processed.
After(i) == Loop(CallStart(pre), SubSeq(lastOps, 1, i))

\* The opcodes section 4.1 of the specification documents.
Documented(op) ==
    \/ 0 <= op /\ op <= 4
    \/ 9 <= op /\ op <= 19
    \/ op \in {23, 24, 53, 55, 64, 65}
    \/ 29 <= op /\ op <= 39
    \/ 90 <= op /\ op <= 97

\* The positions of the last call at which an undocumented opcode went to the
\* if/elif chain.
UnknownAt == { i \in 1 .. Len(lastOps) : ~Documented(lastOps[i]) /\ AsOpcode(i) }

\* C7 as stated: an undocumented opcode that is processed as an opcode (not
\* as an operand of an extended-colour sequence) is non-fatal, only warns, and
\* leaves every field unchanged, whatever opcodes preceded it in the call.
C7_UnknownOpcodeChangesNothing ==
    \A i \in UnknownAt :
        /\ After(i).warned = Append(Before(i).warned, lastOps[i])
        /\ After(i).s = Before(i).s

\* C7 amended: such an opcode is non-fatal, only warns, and leaves every field
\* unchanged, except that directly after an opcode 38 (whose extended-colour
\* prefix it ends) it clears the RGB override.
C7_UnknownOpcodeOnlyEndsPrefix ==
    \A i \in UnknownAt :
        /\ After(i).warned = Append(Before(i).warned, lastOps[i])
        /\ After(i).s = IF i > 1 /\ lastOps[i - 1] = 38 /\ AsOpcode(i - 1)
                        THEN [Before(i).s EXCEPT !.fg_rgb = NoRgb]
                        ELSE Before(i).s
        /\ i = Len(lastOps) => sgr = After(i).s

C7_Witness ==
    /\ ncalls > 0
    /\ lastOps = <<38, 98>>
    /\ UnknownAt = {2}
    /\ pre.fg_rgb # NoRgb
    /\ sgr = [pre EXCEPT !.fg_rgb = NoRgb]

\* ------------------------------------------------------------------------
\* Claims about split and combine
\* ------------------------------------------------------------------------

RECURSIVE Concat(_)
\* "".join(q)
Concat(q) == IF q = << >> THEN << >> ELSE Head(q) \o Concat(Tail(q))

RECURSIVE StripEscapes(_)
\* The text without its escape sequences, as section 4.2 of the specification
\* delimits them: from ESC and the character after it through the first byte
\* in 0x40..0x7E that follows, or through the end of the text if none does.
StripEscapes(t) ==
    IF t = << >> THEN << >>
    ELSE IF Head(t) = ESC
    THEN LET ends == { p \in 3 .. Len(t) : 64 <= t[p] /\ t[p] <= 126 }
             stop == IF ends = {} THEN Len(t)
                     ELSE CHOOSE p \in ends : \A q \in ends : p <= q
         IN  StripEscapes(SubSeq(t, stop + 1, Len(t)))
    ELSE <<Head(t)>> \o StripEscapes(Tail(t))

NotStyle(wd) == ~IsStyle(wd)

\* C8: split(text) terminates (every iteration consumes at least one and at
\* most the remaining characters), the tokens found so far always concatenate
\* to the consumed prefix, so that on return they reproduce the text exactly,
\* every token is non-empty, and dropping the style tokens leaves the text
\* with its escape sequences removed.
C8_SplitRoundTrip ==
    tpc \in {"split", "done"} =>
        /\ base <= Len(text)
        /\ base < Len(text) =>
              /\ SplitAdvance(text, base) >= 1
              /\ base + SplitAdvance(text, base) <= Len(text)
        /\ Concat(res) = Take(text, base)
        /\ \A i \in 1 .. Len(res) : res[i] # << >>
        /\ tpc = "done" =>
              /\ Concat(res) = text
              /\ Concat(SelectSeq(res, NotStyle)) = StripEscapes(text)

C8_Witness ==
    /\ tpc = "done"
    /\ text = <<109, 32, 27, 49, 109>>
    /\ res = <<<<109>>, <<32>>, <<27, 49, 109>>>>

\* C9: combine never fuses across a style token: the style tokens of the
\* input are, unchanged and in order, the style entries of the output, and
\* around every style token the output is what combine returns for the tokens
\* before it, the style token itself, and what combine returns for the tokens
\* after it (binding starts afresh, as at the start of the input).  So
\* combine("word", "\x1b[1m", ",") keeps the comma apart, and "(" before a
\* style token does not absorb the token after it.
C9_NoFuseAcrossStyle ==
    tpc = "done" =>
        /\ SelectSeq(comb, IsStyle) = SelectSeq(toks, IsStyle)
        /\ \A i \in 1 .. Len(toks) :
              IsStyle(toks[i]) =>
                  comb = combine(Take(toks, i - 1)) \o <<toks[i]>> \o combine(Drop(toks, i))
        /\ toks = <<Word, BoldSeq, <<44>>>> => comb = <<Word, BoldSeq, <<44>>>>
        /\ toks = <<<<40>>, BoldSeq, <<97>>>> => comb = <<<<40>>, BoldSeq, <<97>>>>

C9_Witness ==
    /\ tpc = "done"
    /\ toks = <<Word, BoldSeq, <<44>>>>
    /\ comb = <<Word, BoldSeq, <<44>>>>

\* A text of word characters, spaces and line feeds only: no escape sequence,
\* no wide character, and nothing the glyph provider gives no width.
PlainText(t) == \A i \in 1 .. Len(t) : t[i] \in {97, 32, 10}

\* The widths of the text tokens on the line a flush found queued.
LineWidths(f) ==
    LET q == SelectSeq(f.queue \o f.popped, LAMBDA e : ~IsStyle(e[1]))
    IN  [i \in 1 .. Len(q) |-> q[i][2]]

\* C10: for every text with no escape sequence and no wide character, layout
\* with justify = false is greedy word wrap: the call raises no exception,
\* and at every forced break the width consumed by the flushed line is at
\* most the region's width plus the width of one of its tokens, and exceeds
\* the region's width only when the line holds a single token.
C10_GreedyWordWrap ==
    (PlainText(ltext.text) /\ ~ltext.justify) =>
        /\ lpc # "fault"
        /\ \A k \in 1 .. Len(flushes) :
              flushes[k].forced =>
                  LET ws == LineWidths(flushes[k])
                  IN  /\ \/ flushes[k].rw <= st.land.w
                         \/ \E i \in 1 .. Len(ws) : flushes[k].rw <= st.land.w + ws[i]
                      /\ flushes[k].rw > st.land.w => Len(ws) = 1

\* C10, the part that holds: the bound on the width of every flushed line.
C10_WidthBound ==
    (PlainText(ltext.text) /\ ~ltext.justify) =>
        \A k \in 1 .. Len(flushes) :
            flushes[k].forced =>
                (flushes[k].rw > st.land.w => Len(LineWidths(flushes[k])) = 1)

\* ------------------------------------------------------------------------
\* Claims about the painted lines
\* ------------------------------------------------------------------------

RatSub(a, b) == RatAdd(a, [n |-> -b.n, d |-> b.d])

\* The entries of a queue that are text tokens.
TextEntries(q) == SelectSeq(q, LAMBDA e : ~IsStyle(e[1]))

\* The paint calls a flush made.
Painted(f) == SubSeq(paints, f.p0 + 1, f.p1)

\* From the left edge of the first token a flush painted to the right edge
\* of the last one: the last x, plus the measured width of the last token,
\* less the first x.
Span(f) ==
    LET ps == Painted(f)
        ts == TextEntries(f.queue)
    IN  RatSub(RatAdd(Last(ps).x, RatInt(Last(ts)[2])), ps[1].x)

\* |r - k| <= 1
WithinOne(r, k) == Abs(r.n - k * r.d) <= r.d

\* A flush by a forced break that painted at least two tokens.
ForcedWithGap(f) == f.forced /\ f.p1 - f.p0 >= 2

\* C11: with justify = true, a line flushed by a forced break that has at
\* least one gap between tokens is painted so that the span from the first
\* token's left edge to the last token's right edge is the region's width,
\* within one unit, whatever word, whitespace and style tokens are on it.
C11_JustifiedSpanIsRegionWidth ==
    ltext.justify =>
        \A k \in 1 .. Len(flushes) :
            ForcedWithGap(flushes[k]) => WithinOne(Span(flushes[k]), st.land.w)

\* C11, the part that holds: the span is the region's width exactly when
\* the strip removed whitespace tokens only.
C11_SpanWhenStripIsClean ==
    ltext.justify =>
        \A k \in 1 .. Len(flushes) :
            (/\ ForcedWithGap(flushes[k])
             /\ \A i \in 1 .. Len(flushes[k].popped) :
                   ~IsStyle(flushes[k].popped[i][1]) /\ ~HasInk(flushes[k].popped[i][1]))
            => Span(flushes[k]) = RatInt(st.land.w)

\* The text tokens of the hard lines, in the order _text meets them.
RECURSIVE StreamTokens(_)
StreamTokens(ls) ==
    IF ls = << >> THEN << >>
    ELSE SelectSeq(combine(split(Head(ls))), NotStyle) \o StreamTokens(Tail(ls))

\* a can be had from b by leaving entries out
RECURSIVE IsSubseq(_, _)
IsSubseq(a, b) ==
    IF a = << >> THEN TRUE
    ELSE IF b = << >> THEN FALSE
    ELSE IF Head(a) = Head(b) THEN IsSubseq(Tail(a), Tail(b))
    ELSE IsSubseq(a, Tail(b))

\* The visual line of the i-th paint call: the number of the flush that made
\* it, the flush under way if none has.
LineOf(i) ==
    IF \E k \in 1 .. Len(flushes) : flushes[k].p0 < i /\ i <= flushes[k].p1
    THEN CHOOSE k \in 1 .. Len(flushes) : flushes[k].p0 < i /\ i <= flushes[k].p1
    ELSE Len(flushes) + 1

RatLess(a, b) == a.n * b.d < b.n * a.d

\* C12: paint calls are issued in reading order: the text tokens painted are
\* painted in the order of the token stream, within one visual line the
\* paint x strictly increases (at one y), and every later visual line is
\* painted at a strictly greater y than every earlier one.
C12_ReadingOrder ==
    /\ IsSubseq([i \in 1 .. Len(paints) |-> paints[i].wd],
                StreamTokens(splitlines(ltext.text)))
    /\ \A i, j \in 1 .. Len(paints) :
          i < j =>
              IF LineOf(i) = LineOf(j)
              THEN paints[i].y = paints[j].y /\ RatLess(paints[i].x, paints[j].x)
              ELSE LineOf(i) < LineOf(j) /\ paints[i].y < paints[j].y

\* Two tokens painted on one visual line, a gap of remainder between them,
\* and a third on the next line.
C12_Witness ==
    /\ lpc = "done"
    /\ Len(paints) = 3
    /\ LineOf(1) = LineOf(2)
    /\ LineOf(2) < LineOf(3)
    /\ flushes[LineOf(1)].crb > 0

\* The positions of the text entries of a queue that were measured 0 wide.
ZeroWide(q) == { p \in 1 .. Len(q) : ~IsStyle(q[p][1]) /\ q[p][2] = 0 }

\* The style state after the style entries of q, in order, from s.
RECURSIVE ApplyStyles(_, _)
ApplyStyles(s, q) ==
    IF q = << >> THEN s
    ELSE IF IsStyle(Head(q)[1])
    THEN ApplyStyles(set_state(s, ParseParams(Head(q)[1]).ops), Tail(q))
    ELSE ApplyStyles(s, Tail(q))

\* The step in which _draw_text raises RuntimeError: the queue it was given
\* holds a text entry measured 0 wide; the entries before the first such one
\* were played (their text tokens painted after the paint calls made before,
\* their style tokens applied, the cursor past the last token painted), and
\* neither it nor a later entry was painted.
AbortsAtZeroWidth ==
    (lo.exc = "none" /\ lo'.exc = "RuntimeError") =>
        /\ lpc' = "fault"
        /\ ZeroWide(lo'.rq) # {}
        /\ LET p == CHOOSE x \in ZeroWide(lo'.rq) : \A y \in ZeroWide(lo'.rq) : x <= y
               played == Take(lo'.rq, p - 1)
               shown == TextEntries(played)
           IN  /\ Len(paints') = Len(paints) + Len(shown)
               /\ Take(paints', Len(paints)) = paints
               /\ \A i \in 1 .. Len(shown) : paints'[Len(paints) + i].wd = shown[i][1]
               /\ st'.sgr = ApplyStyles(st.sgr, played)
               /\ shown # << >> =>
                     RatLess(RatSub(Last(paints').x, RatInt(st.land.x)), st'.curpos[1])
               /\ shown = << >> => st'.curpos = st.curpos

\* C13: a text token that reaches the paint step with measured width 0
\* aborts the call: no _draw_text that returned had such a token in its
\* queue, the one that met it raised RuntimeError without painting it or a
\* later token and without undoing the paint calls and the cursor and style
\* changes made before, and nothing runs after the exception.
C13_ZeroWidthAborts ==
    [][/\ \A k \in 1 .. Len(flushes') : ZeroWide(flushes'[k].queue) = {}
       /\ AbortsAtZeroWidth
       /\ lpc = "fault" => UNCHANGED vars]_vars

\* "a\x1b[1m" and U+200B in a region wide enough: "a" was painted in the
\* regular font, the style token applied, and the call aborted.
C13_Witness ==
    /\ lpc = "fault"
    /\ lo.exc = "RuntimeError"
    /\ ltext.text = <<97>> \o BoldSeq \o <<20013, ZeroWidth>>
    /\ Len(paints) = 2
    /\ paints[1].font = RegularSlot
    /\ paints[2].font = BoldSlot
    /\ st.sgr.power = 1

\* A style token without a final byte after its first two characters.
Unterminated(wd) == IsStyle(wd) /\ \A i \in 3 .. Len(wd) : ~IsFinalByte(wd[i])

\* The position in the queue at which _draw_text raised ValueError: the first
\* style entry whose parameters int() rejects.
RejectedAt(q) ==
    LET bad == { p \in 1 .. Len(q) : IsStyle(q[p][1]) /\ ~ParseParams(q[p][1]).ok }
    IN  CHOOSE p \in bad : \A y \in bad : p <= y

\* C14, the part that holds: findcsiend gives the length of an escape
\* sequence without final byte, and split emits it whole as the last token
\* of the hard line.
C14_RemainderIsOneStyleToken ==
    \A i \in 1 .. Len(lo.sp) :
        Unterminated(lo.sp[i]) => findcsiend(lo.sp[i]) = Len(lo.sp[i]) /\ i = Len(lo.sp)

\* C14: an escape sequence with no final byte before the end of the input is
\* never an error: findcsiend returns the length of the whole remainder,
\* split emits the remainder as one style token, and the layout of the text
\* raises no exception over it.
C14_UnterminatedIsNoError ==
    /\ C14_RemainderIsOneStyleToken
    /\ lo.exc = "ValueError" => ~Unterminated(lo.rq[RejectedAt(lo.rq)][1])

\* The state object as it would be with the style tokens still queued applied.
WithQueuedStyles(t, q) == [t EXCEPT !.sgr = ApplyStyles(t.sgr, q)]

\* Every style token still queued has parameters int() accepts.
QueuedStylesParse(q) == \A p \in 1 .. Len(q) : IsStyle(q[p][1]) => ParseParams(q[p][1]).ok

\* The step of _text on a text token that queues it: the width queued is the
\* width of the token in the font of the style state with every style token
\* before it in the stream applied, those still in the queue included.
MeasuredUnderPrecedingStyles ==
    (/\ lpc = "loop" /\ lo.i <= Len(lo.sp) /\ ~IsStyle(lo.sp[lo.i])
     /\ lo'.exc = "none" /\ lo'.rq # << >>
     /\ QueuedStylesParse(lo.rq)
     /\ current_font(WithQueuedStyles(st, lo.rq)).kind = "font")
    => Last(lo'.rq) =
          <<lo.sp[lo.i],
            textbbox(lo.sp[lo.i], current_font(WithQueuedStyles(st, lo.rq)).font).w>>

\* The step that flushes a line: every token is painted in a font that gives
\* it the width it was measured with.
PaintedAsMeasured ==
    Len(flushes') = Len(flushes) + 1 =>
        LET f == Last(flushes')
            ts == TextEntries(f.queue)
        IN  \A i \in 1 .. Len(ts) :
                textbbox(ts[i][1], paints'[f.p0 + i].font).w = ts[i][2]

\* C15: a style token is applied to the style state when _text meets it:
\* every text token is measured in the font of the style state after all the
\* style tokens before it in the token stream, and is later painted under
\* that same style.
C15_StyleAppliedWhenMet == [][MeasuredUnderPrecedingStyles /\ PaintedAsMeasured]_vars

\* A queue entry that is a whitespace token.
IsBlank(e) == ~IsStyle(e[1]) /\ ~HasInk(e[1])

\* C16: on every forced break the entries taken off the end of the queue are
\* exactly the trailing whitespace tokens of the line: no word token and no
\* style token is among them, no more are taken than are queued (the pop
\* never raises), and the last token painted on the wrapped line is not a
\* whitespace token.
C16_StripTakesTrailingWhitespace ==
    /\ lo.exc # "IndexError"
    /\ \A k \in 1 .. Len(flushes) :
          flushes[k].forced =>
              /\ \A i \in 1 .. Len(flushes[k].popped) : IsBlank(flushes[k].popped[i])
              /\ TextEntries(flushes[k].queue) # << >> =>
                    ~IsBlank(Last(TextEntries(flushes[k].queue)))
              /\ flushes[k].p1 > flushes[k].p0 => HasInk(paints[flushes[k].p1].wd)

\* The lines begun by a forced break: the one still queued, if the last
\* flush was forced, and those of the flushes that follow a forced one.
WrappedLines ==
    { TextEntries(flushes[k].queue \o flushes[k].popped) :
          k \in { j \in 2 .. Len(flushes) : flushes[j - 1].forced } }
    \cup (IF lpc = "loop" /\ flushes # << >> /\ Last(flushes).forced
          THEN {TextEntries(lo.rq)} ELSE {})

\* C17: after a forced break the whitespace tokens before the first word
\* token of the new line are dropped: no line begun by a forced break has a
\* whitespace token as its first text token, queued (and so counted in its
\* width) or painted, with or without style tokens around the break.
C17_WrappedLineStartsWithWord ==
    /\ \A ts \in WrappedLines : ts # << >> => ~IsBlank(ts[1])
    /\ \A k \in 2 .. Len(flushes) :
          (flushes[k - 1].forced /\ flushes[k].p1 > flushes[k].p0) =>
              HasInk(paints[flushes[k].p0 + 1].wd)

\* The tokens a flush painted stand side by side from the left edge of the
\* region: each begins where the one before it ends.
PaintedWithoutRemainder(f) ==
    LET ts == TextEntries(f.queue)
    IN  /\ f.p1 - f.p0 = Len(ts)
        /\ ts # << >> => paints[f.p0 + 1].x = RatInt(st.land.x)
        /\ \A i \in 1 .. Len(ts) - 1 :
              paints[f.p0 + i + 1].x = RatAdd(paints[f.p0 + i].x, RatInt(ts[i][2]))

StateWith(s) == [TextDrawState(1) EXCEPT !.sgr = s]

\* C19: opcode 39 sets the foreground to the default index: after
\* set_state(39) from any state, fg is fg_default and current_color is the
\* palette colour of the default index, also when an RGB override was active
\* before the call.
C19_DefaultForeground ==
    (ncalls > 0 /\ lastOps = <<39>>) =>
        /\ sgr.fg = sgr.fg_default
        /\ current_color(StateWith(sgr)) = [kind |-> "palette", v |-> <<sgr.fg_default>>]

\* C19, the part that holds: fg is fg_default after set_state(39), and the
\* colour is the default one when no RGB override was active before.
C19_DefaultIndex ==
    (ncalls > 0 /\ lastOps = <<39>>) =>
        /\ sgr.fg = sgr.fg_default
        /\ pre.fg_rgb = NoRgb =>
              current_color(StateWith(sgr)) = [kind |-> "palette", v |-> <<sgr.fg_default>>]

\* C20: combine preserves content: the entries of its result, joined, are
\* the tokens given, joined (every token once, in order, no character twice
\* or missing), also when a single right-binding or both-binding mark is
\* directly followed by a single left-binding or both-binding mark.
C20_CombinePreservesContent ==
    tpc = "done" /\ toks # << >> => Concat(comb) = Concat(toks)

\* ------------------------------------------------------------------------
\* Claims about the height of a wrapped line
\* ------------------------------------------------------------------------

\* The greatest of lineheight and the heights of the tokens ws.
RECURSIVE LineHeightOf(_)
LineHeightOf(ws) ==
    IF ws = << >> THEN st.lineheight
    ELSE Max(TextHeight(Head(ws)), LineHeightOf(Tail(ws)))

\* The tokens a flush painted.
PaintedTokens(f) == [i \in 1 .. f.p1 - f.p0 |-> paints[f.p0 + i].wd]

\* C21: on a forced break the cursor y advances by the greater of lineheight
\* and the greatest height measured among the tokens painted on the flushed
\* line, plus spacing: the height of the token that forced the break counts
\* for the line that token is painted on, not for the line flushed.
C21_AdvanceByFlushedLine ==
    \A k \in 1 .. Len(flushes) :
        flushes[k].forced =>
            flushes[k].y1 - flushes[k].y0
                = LineHeightOf(PaintedTokens(flushes[k])) + st.spacing

====
